---------------------------- MODULE Spec2Model ----------------------------
(***************************************************************************)
(* A model of strip_xss (gateone/utils.py), the HTML tag whitelist         *)
(* sanitizer of GateOne, and of merge_handlers, memoize, get_or_cache and  *)
(* shell_command of the same file.                                         *)
(*                                                                         *)
(* Text is a sequence of characters; a character is a one-element string   *)
(* ("<", "a", " ", ...).  The character U+2421 is written "U+2421" and is  *)
(* one character of the text like any other.  Tag names and whitelist      *)
(* entries are strings, obtained from text with Str.                       *)
(***************************************************************************)
EXTENDS Naturals, Sequences, FiniteSets, TLC

VARIABLES
    document,       \* the argument html as the caller passed it
    whitelist_arg,  \* the argument whitelist: <<>> is None, <<S>> the set S
    replacement,    \* the argument replacement (a string)
    html,           \* the local html, reassigned by the replacement loops
    whitelist,      \* the local whitelist after lines 1578-1589
    bad_tags,       \* the list bad_tags
    tokens,         \* the spans of the matches finditer has yielded
    pos,            \* where finditer resumes scanning
    k,              \* index of the next bad_tag of the replacement loop
    pc,             \* "start", "scan", "replace", "done", "raised"
    merge,          \* a call of merge_handlers: its lists and its position
    calls,          \* calls of strip_xss made by threads: the locals of each
    heap,           \* the objects those calls refer to: lists and a set
    memoized,       \* a memoize object: its dict memo, and the calls made of it
    cache,          \* a call of get_or_cache, and the files of cache_dir
    shell           \* a call of shell_command, its worker thread and its command

\* the state of the functions other than strip_xss
others == <<merge, calls, heap, memoized, cache, shell>>

vars == <<document, whitelist_arg, replacement, html, whitelist, bad_tags,
          tokens, pos, k, pc, others>>

\* the value of a variable whose function is not called
NotCalled == [pc |-> "idle"]

\* every function but the named one is not called ...
Idle(function) ==
    /\ IF function = "strip_xss" THEN TRUE
       ELSE /\ document = <<>> /\ whitelist_arg = <<>> /\ replacement = ""
            /\ html = <<>> /\ whitelist = {} /\ bad_tags = <<>>
            /\ tokens = <<>> /\ pos = 1 /\ k = 1 /\ pc = "idle"
    /\ IF function = "merge_handlers" THEN TRUE ELSE merge = NotCalled
    /\ IF function = "threads" THEN TRUE
       ELSE calls = NotCalled /\ heap = NotCalled
    /\ IF function = "memoize" THEN TRUE ELSE memoized = NotCalled
    /\ IF function = "get_or_cache" THEN TRUE ELSE cache = NotCalled
    /\ IF function = "shell_command" THEN TRUE ELSE shell = NotCalled

\* ... and its state is left alone by the steps of the named one
Frame(function) ==
    /\ IF function = "strip_xss" THEN TRUE
       ELSE UNCHANGED <<document, whitelist_arg, replacement, html, whitelist,
                        bad_tags, tokens, pos, k, pc>>
    /\ IF function = "merge_handlers" THEN TRUE ELSE UNCHANGED merge
    /\ IF function = "threads" THEN TRUE ELSE UNCHANGED <<calls, heap>>
    /\ IF function = "memoize" THEN TRUE ELSE UNCHANGED memoized
    /\ IF function = "get_or_cache" THEN TRUE ELSE UNCHANGED cache
    /\ IF function = "shell_command" THEN TRUE ELSE UNCHANGED shell

-----------------------------------------------------------------------------
(* Characters and character classes.                                       *)

Placeholder == "U+2421"

LowerLetters == {"a","b","c","d","e","f","g","h","i","j","k","l","m",
                 "n","o","p","q","r","s","t","u","v","w","x","y","z"}
UpperLetters == {"A","B","C","D","E","F","G","H","I","J","K","L","M",
                 "N","O","P","Q","R","S","T","U","V","W","X","Y","Z"}
Digits == {"0","1","2","3","4","5","6","7","8","9"}

\* \w of a pattern compiled without re.UNICODE: [a-zA-Z0-9_]
WordChars == LowerLetters \cup UpperLetters \cup Digits \cup {"_"}
\* \s: [ \t\n\r\f\v]
SpaceChars == {" ", "\t", "\n", "\r", "\f"}
Punctuation == {"!", "\"", "#", "$", "%", "&", "'", "(", ")", "*", "+", ",",
                "-", ".", "/", ":", ";", "<", "=", ">", "?", "@", "[",
                "]", "^", "{", "|", "}", "~"}
\* bytes above 0x7F of a text that is a byte string (str): the UTF-8 form of
\* U+00E9
ByteChars == {"0xC3", "0xA9"}
\* the characters of the texts of this model
Alphabet ==
    WordChars \cup SpaceChars \cup Punctuation \cup {Placeholder} \cup ByteChars
\* . (no DOTALL): anything but a newline
DotChars == Alphabet \ {"\n"}
\* [^'">\s]
BareChars == Alphabet \ ({"'", "\"", ">"} \cup SpaceChars)
\* what str.split() does not split at
NonSpaceChars == Alphabet \ SpaceChars

\* str.lower() on one character
LowerChar(c) ==
    CASE c = "A" -> "a" [] c = "B" -> "b" [] c = "C" -> "c" [] c = "D" -> "d"
      [] c = "E" -> "e" [] c = "F" -> "f" [] c = "G" -> "g" [] c = "H" -> "h"
      [] c = "I" -> "i" [] c = "J" -> "j" [] c = "K" -> "k" [] c = "L" -> "l"
      [] c = "M" -> "m" [] c = "N" -> "n" [] c = "O" -> "o" [] c = "P" -> "p"
      [] c = "Q" -> "q" [] c = "R" -> "r" [] c = "S" -> "s" [] c = "T" -> "t"
      [] c = "U" -> "u" [] c = "V" -> "v" [] c = "W" -> "w" [] c = "X" -> "x"
      [] c = "Y" -> "y" [] c = "Z" -> "z" [] OTHER -> c
\* str.lower()
Lower(s) == [i \in 1..Len(s) |-> LowerChar(s[i])]

\* The string a text spells
RECURSIVE Str(_)
Str(s) == IF s = <<>> THEN "" ELSE Head(s) \o Str(Tail(s))

-----------------------------------------------------------------------------
(* The backtracking matcher.  A pattern is modelled by the sequence of    *)
(* positions at which it can end when started at position i of s, in the   *)
(* order in which the backtracking engine tries them; a position is the    *)
(* index of the next character to read.  The engine's match is the first   *)
(* end of the whole pattern.                                               *)

\* the concatenation of the sequences of ss
RECURSIVE Flatten(_)
Flatten(ss) ==
    IF ss = <<>> THEN <<>>
    ELSE IF Len(ss) = 1 THEN ss[1]
    ELSE LET half == Len(ss) \div 2
         IN  Flatten(SubSeq(ss, 1, half)) \o Flatten(SubSeq(ss, half + 1, Len(ss)))

\* pattern A followed by pattern B: B tried from each end of A, in order
Then(ends, B(_)) == Flatten([n \in 1..Len(ends) |-> B(ends[n])])

\* one given character
Lit(s, i, c) == IF i <= Len(s) /\ s[i] = c THEN <<i + 1>> ELSE <<>>

\* the number of characters of class C at the front of s from position i
RECURSIVE Run(_, _, _)
Run(s, i, C) == IF i <= Len(s) /\ s[i] \in C THEN 1 + Run(s, i + 1, C) ELSE 0

\* greedy C+ and C*: the longest run first
Down(i, n, least) == [m \in 1..(n - least + 1) |-> i + n - (m - 1)]
Plus(s, i, C) == Down(i, Run(s, i, C), 1)
Star(s, i, C) == Down(i, Run(s, i, C), 0)

\* q.*?q for a quote character q: the nearest closing quote first
RECURSIVE LazyTo(_, _, _)
LazyTo(s, j, q) ==
    IF j > Len(s) THEN <<>>
    ELSE IF s[j] = "\n" THEN <<>>
    ELSE IF s[j] = q THEN <<j + 1>> \o LazyTo(s, j + 1, q)
    ELSE LazyTo(s, j + 1, q)
Quoted(s, i, q) == IF Lit(s, i, q) = <<>> THEN <<>> ELSE LazyTo(s, i + 1, q)

\* [^'">\s]+
Bare(s, i) == Plus(s, i, BareChars)

\* (?:".*?"|'.*?'|[^'">\s]+)
Value(s, i) == Quoted(s, i, "\"") \o Quoted(s, i, "'") \o Bare(s, i)

\* (\s*=\s*(?:...))?
AttrValue(s, i) ==
    LET eq(a) == Lit(s, a, "=")
        sp(a) == Star(s, a, SpaceChars)
        val(a) == Value(s, a)
    IN  Then(Then(Then(sp(i), eq), sp), val) \o <<i>>

\* (\s+\w+(\s*=\s*(?:...))?)
Attr(s, i) ==
    LET w(a) == Plus(s, a, WordChars)
        av(a) == AttrValue(s, a)
    IN  Then(Then(Plus(s, i, SpaceChars), w), av)

\* (...)+ : after one attribute, another one is tried before stopping
RECURSIVE Attrs(_, _)
Attrs(s, i) ==
    LET one == Attr(s, i)
    IN  Flatten([n \in 1..Len(one) |-> Attrs(s, one[n]) \o <<one[n]>>])

\* ((\s+\w+(...)?)+\s*|\s*)
Middle(s, i) ==
    LET sp(a) == Star(s, a, SpaceChars)
    IN  Then(Attrs(s, i), sp) \o sp(i)

\* re_html_tag: <\/?\w+((\s+\w+(\s*=\s*(?:".*?"|'.*?'|[^'">\s]+))?)+\s*|\s*)\/?>
\* the pattern up to its final ">": the positions at which the engine tries
\* that ">", one for each way it has of reading the text before it
TagBody(s, i) ==
    LET slash(a) == Lit(s, a, "/") \o <<a>>
        name(a) == Plus(s, a, WordChars)
        mid(a) == Middle(s, a)
    IN  Then(Then(Then(Then(Lit(s, i, "<"), slash), name), mid), slash)

re_html_tag(s, i) ==
    LET gt(a) == Lit(s, a, ">")
    IN  Then(TagBody(s, i), gt)

\* finditer's next match at or after position i: <<start, end>>, or <<>>
NextMatch(s, i) ==
    LET starts == {j \in i..Len(s) : re_html_tag(s, j) # <<>>}
    IN  IF starts = {} THEN <<>>
        ELSE LET j == CHOOSE a \in starts : \A b \in starts : a <= b
             IN  <<j, Head(re_html_tag(s, j))>>

-----------------------------------------------------------------------------
(* The pieces of strip_xss.                                                *)

\* str.split()[0]: the first run of non-whitespace characters
FirstWord(s) ==
    LET from == 1 + Run(s, 1, SpaceChars)
    IN  SubSeq(s, from, from + Run(s, from, NonSpaceChars) - 1)

\* str.lstrip(chars), str.rstrip(chars)
LStrip(s, C) == SubSeq(s, 1 + Run(s, 1, C), Len(s))
RECURSIVE RStrip(_, _)
RStrip(s, C) ==
    IF s # <<>> /\ s[Len(s)] \in C THEN RStrip(SubSeq(s, 1, Len(s) - 1), C) ELSE s

\* short_tag with the final .rstrip('>') left out
short_tagNoRstrip(tag) == Str(LStrip(FirstWord(Lower(tag)), {"<", "/"}))

\* short_tag = tag_lower.split()[0].lstrip('</').rstrip('>')
short_tag(tag) == Str(RStrip(LStrip(FirstWord(Lower(tag)), {"<", "/"}), {">"}))

\* sub in s
Contains(s, sub) ==
    \E i \in 1..Len(s) : /\ i + Len(sub) - 1 <= Len(s)
                         /\ SubSeq(s, i, i + Len(sub) - 1) = sub

\* the literals of the scan loop
Javascript == <<"j","a","v","a","s","c","r","i","p","t",":">>
Vbscript == <<"v","b","s","c","r","i","p","t",":">>
Fscommand == <<"f","s","c","o","m","m","a","n","d">>
Seeksegmenttime == <<"s","e","e","k","s","e","g","m","e","n","t","t","i","m","e">>

\* on_events_re: .*\s+(on[a-z]+\s*=).*
on_events_re(s, i) ==
    LET dot(a) == Star(s, a, DotChars)
        sp1(a) == Plus(s, a, SpaceChars)
        o(a) == Lit(s, a, "o")
        n(a) == Lit(s, a, "n")
        az(a) == Plus(s, a, LowerLetters)
        sp(a) == Star(s, a, SpaceChars)
        eq(a) == Lit(s, a, "=")
    IN  Then(Then(Then(Then(Then(Then(Then(dot(i), sp1), o), n), az), sp), eq), dot)

\* a search that finds no event handler
OnEventsNever(s) == FALSE

\* on_events_re.search(s)
OnEventsSearch(s) == \E i \in 1..(Len(s) + 1) : on_events_re(s, i) # <<>>

\* the scan loop with only its whitelist test
IsBadTagNameOnly(tag, wl) == short_tag(tag) \notin wl

\* the chain of tests of the scan loop: TRUE when the tag is appended
IsBadTag(tag, wl) ==
    LET tag_lower == Lower(tag)
    IN  \/ short_tag(tag) \notin wl
        \/ Contains(tag_lower, Javascript)
        \/ OnEventsSearch(tag_lower)
        \/ Contains(tag_lower, Fscommand)
        \/ Contains(tag_lower, Seeksegmenttime)
        \/ Contains(tag_lower, Vbscript)

\* the list the scan loop builds from position i of s on
RECURSIVE BadTagsFrom(_, _, _)
BadTagsFrom(s, i, wl) ==
    LET m == NextMatch(s, i)
    IN  IF m = <<>> THEN <<>>
        ELSE LET tag == SubSeq(s, m[1], m[2] - 1)
             IN  (IF IsBadTag(tag, wl) THEN <<tag>> ELSE <<>>)
                     \o BadTagsFrom(s, m[2], wl)

\* a default whitelist that lets script through
DefaultWhitelistWithScript == {"a", "img", "script", "span"}

\* the whitelist used when the argument is None or empty
DefaultWhitelist ==
    {"a", "abbr", "aside", "audio", "bdi", "bdo", "blockquote", "canvas",
     "caption", "code", "col", "colgroup", "data", "dd", "del",
     "details", "div", "dl", "dt", "em", "figcaption", "figure", "h1",
     "h2", "h3", "h4", "h5", "h6", "hr", "i", "img", "ins", "kbd", "li",
     "mark", "ol", "p", "pre", "q", "rp", "rt", "ruby", "s", "samp",
     "small", "source", "span", "strong", "sub", "summary", "sup",
     "time", "track", "u", "ul", "var", "video", "wbr"}

\* if not whitelist: whitelist = set([...])
EffectiveWhitelist(arg) ==
    IF arg = <<>> \/ arg[1] = {} THEN DefaultWhitelist ELSE arg[1]

\* str.replace(old, new): the occurrences of old, leftmost first, not overlapping
\* str.find(old, from): the first occurrence of old at or after from, or 0
Find(s, old, from) ==
    LET at == {i \in from..(Len(s) - Len(old) + 1) :
                  SubSeq(s, i, i + Len(old) - 1) = old}
    IN  IF at = {} THEN 0 ELSE CHOOSE a \in at : \A b \in at : a <= b

RECURSIVE ReplaceFrom(_, _, _, _)
ReplaceFrom(s, old, new, from) ==
    LET i == Find(s, old, from)
    IN  IF i = 0 THEN SubSeq(s, from, Len(s))
        ELSE SubSeq(s, from, i - 1) \o new \o ReplaceFrom(s, old, new, i + Len(old))

StrReplace(s, old, new) == ReplaceFrom(s, old, new, 1)

\* cgi.escape(s, quote=True): the double quote is rewritten too
EscapeCharQuote(c) ==
    CASE c = "&" -> <<"&", "a", "m", "p", ";">>
      [] c = "<" -> <<"&", "l", "t", ";">>
      [] c = ">" -> <<"&", "g", "t", ";">>
      [] c = "\"" -> <<"&", "q", "u", "o", "t", ";">>
      [] c = Placeholder -> <<"&", "#", "9", "2", "4", "9", ";">>
      [] OTHER -> <<c>>

\* An escaping that rewrites the ampersand only, leaving angle brackets literal
EscapeCharAmpOnly(c) ==
    CASE c = "&" -> <<"&", "a", "m", "p", ";">>
      [] c = Placeholder -> <<"&", "#", "9", "2", "4", "9", ";">>
      [] OTHER -> <<c>>

\* cgi.escape(s) (quote not set), then .encode('ascii', 'xmlcharrefreplace')
EscapeChar(c) ==
    CASE c = "&" -> <<"&", "a", "m", "p", ";">>
      [] c = "<" -> <<"&", "l", "t", ";">>
      [] c = ">" -> <<"&", "g", "t", ";">>
      [] c = Placeholder -> <<"&", "#", "9", "2", "4", "9", ";">>
      [] OTHER -> <<c>>
Escape(s) == Flatten([n \in 1..Len(s) |-> EscapeChar(s[n])])

\* The implicit decoding of a byte string with the ascii codec, which
\* str.replace(old, u"...") and str.encode(...) perform on html, raises
\* UnicodeDecodeError on a byte above 0x7F.
AsciiDecodeFails(h) == \E n \in 1..Len(h) : h[n] \in ByteChars

\* a pass that puts the escaped bad tag in place of the bad tag
ReplaceEntitiesOwnText(h, bad_tag) == StrReplace(h, bad_tag, Escape(bad_tag))

\* one pass of the replacement loop in the "entities" branch
ReplaceEntities(h, bad_tag) == StrReplace(h, bad_tag, Escape(h))

\* the character the other branch puts in place of a bad tag
SymbolUsed(repl) == Placeholder

\* one pass of the replacement loop in the other branch
ReplaceSymbol(h, bad_tag, repl) == StrReplace(h, bad_tag, <<SymbolUsed(repl)>>)

\* a list kept free of duplicates
AppendBadOnce(bad, tag) ==
    IF \E n \in 1..Len(bad) : bad[n] = tag THEN bad ELSE Append(bad, tag)

\* bad_tags.append(tag)
AppendBad(bad, tag) == Append(bad, tag)

-----------------------------------------------------------------------------
(* The calls the model makes.                                              *)

MaxPieces == 2

SpanOpen == <<"<","s","p","a","n",">">>
SpanClose == <<"<","/","s","p","a","n",">">>
HelloExploit ==
    <<"H","e","l","l","o",","," ","e","x","p","l","o","i","t",":"," ">>
ImgJavascript ==
    <<"<","i","m","g"," ","s","r","c","=","\"","j","a","v","a","s","c","r",
      "i","p","t",":","a","l","e","r","t","(","1",")","\"",">">>

\* '<span>Hello, exploit: <img src="javascript:alert(1)"></span>'
ExampleDocument == SpanOpen \o HelloExploit \o ImgJavascript \o SpanClose

Pieces ==
    { <<"<","a",">">>,                              \* <a>
      <<"<","/","A",">">>,                          \* </A>
      <<"<","a","/",">">>,                          \* <a/>
      <<"<","y",">">>,                              \* <y>
      <<"<","y",">","<","x"," ","a","=","<","y",">",">">>,  \* <y><x a=<y>>
      <<"<","x"," ","a","=",Placeholder,">">>,      \* <x a=U+2421>
      <<"<","a"," ","o","n","x","=","1",">">>,      \* <a onx=1>
      <<"<","y"," ","a","-","b",">">> }             \* <y a-b>

RECURSIVE Joined(_)
Joined(n) ==
    IF n = 0 THEN {<<>>}
    ELSE Joined(n - 1) \cup {d \o p : d \in Joined(n - 1), p \in Pieces}

Documents == Joined(MaxPieces) \cup {ExampleDocument}
\* the arguments whitelist and replacement of the calls
Calls == { <<<<>>, Placeholder>>, <<<<>>, "entities">>, <<<<>>, "?">>,
           <<<<{"a", "x"}>>, Placeholder>> }

-----------------------------------------------------------------------------
(* strip_xss as a state machine.                                           *)

Init ==
    /\ document \in Documents
    /\ \E c \in Calls : whitelist_arg = c[1] /\ replacement = c[2]
    /\ html = document
    /\ whitelist = {}
    /\ bad_tags = <<>>
    /\ tokens = <<>>
    /\ pos = 1
    /\ k = 1
    /\ pc = "start"
    /\ Idle("strip_xss")

\* lines 1578-1590
Start ==
    /\ pc = "start"
    /\ whitelist' = EffectiveWhitelist(whitelist_arg)
    /\ pc' = "scan"
    /\ UNCHANGED <<document, whitelist_arg, replacement, html, bad_tags,
                   tokens, pos, k>>
    /\ Frame("strip_xss")

\* one turn of the loop over re_html_tag.finditer(html), or its end
Scan ==
    /\ pc = "scan"
    /\ LET m == NextMatch(html, pos)
       IN  IF m = <<>>
           THEN /\ pc' = "replace"
                /\ UNCHANGED <<bad_tags, tokens, pos>>
           ELSE LET tag == SubSeq(html, m[1], m[2] - 1)
                IN  /\ tokens' = Append(tokens, [start |-> m[1], end |-> m[2]])
                    /\ bad_tags' = IF IsBadTag(tag, whitelist)
                                   THEN AppendBad(bad_tags, tag) ELSE bad_tags
                    /\ pos' = m[2]
                    /\ pc' = pc
    /\ UNCHANGED <<document, whitelist_arg, replacement, html, whitelist, k>>
    /\ Frame("strip_xss")

\* one turn of the loop of lines 1620-1622
EntitiesStep ==
    /\ pc = "replace"
    /\ replacement = "entities"
    /\ k <= Len(bad_tags)
    /\ ~AsciiDecodeFails(html)
    /\ html' = ReplaceEntities(html, bad_tags[k])
    /\ k' = k + 1
    /\ UNCHANGED <<document, whitelist_arg, replacement, whitelist, bad_tags,
                   tokens, pos, pc>>
    /\ Frame("strip_xss")

\* one turn of the loop of lines 1624-1625
SymbolStep ==
    /\ pc = "replace"
    /\ replacement # "entities"
    /\ k <= Len(bad_tags)
    /\ ~AsciiDecodeFails(html)
    /\ html' = ReplaceSymbol(html, bad_tags[k], replacement)
    /\ k' = k + 1
    /\ UNCHANGED <<document, whitelist_arg, replacement, whitelist, bad_tags,
                   tokens, pos, pc>>
    /\ Frame("strip_xss")

\* return (html, bad_tags)
Return ==
    /\ pc = "replace"
    /\ k > Len(bad_tags)
    /\ pc' = "done"
    /\ UNCHANGED <<document, whitelist_arg, replacement, html, whitelist,
                   bad_tags, tokens, pos, k>>
    /\ Frame("strip_xss")

Next == Start \/ Scan \/ EntitiesStep \/ SymbolStep \/ Return

Spec == Init /\ [][Next]_vars

-----------------------------------------------------------------------------
(* strip_xss on further arguments: a whitelist that is empty or has an     *)
(* upper-case entry, a byte string with bytes above 0x7F, and an opened    *)
(* tag with many quoted attributes that is never closed.                   *)

MaxAttrs == 5

\* '<y>' and '<a>' followed by the two bytes of a UTF-8 encoded U+00E9
ByteDocuments == { <<"<","y",">","0xC3","0xA9">>, <<"<","a",">","0xC3","0xA9">> }

\* '<a' followed by n times ' a=""', with no '>'
RECURSIVE Unclosed(_)
Unclosed(n) ==
    IF n = 0 THEN <<"<","a">> ELSE Unclosed(n - 1) \o <<" ","a","=","\"","\"">>

\* '<a b="x"onx="1">': an event handler with no whitespace before it
HandlerAfterQuote ==
    <<"<","a"," ","b","=","\"","x","\"","o","n","x","=","\"","1","\"",">">>

\* '<div onmouseover="steal()">x</div>'
DivOpen ==
    <<"<","d","i","v"," ","o","n","m","o","u","s","e","o","v","e","r","=",
      "\"","s","t","e","a","l","(",")","\"",">">>
DivClose == <<"<","/","d","i","v",">">>
DivDocument == DivOpen \o <<"x">> \o DivClose

\* the document of the docstring:
\* '<span>Hello, exploit: <img src="javascript:alert("pwned!")"></span>'
ImgPwned ==
    <<"<","i","m","g"," ","s","r","c","=","\"","j","a","v","a","s","c","r",
      "i","p","t",":","a","l","e","r","t","(","\"","p","w","n","e","d","!",
      "\"",")","\"",">">>
DocstringDocument == SpanOpen \o HelloExploit \o ImgPwned \o SpanClose

ArgumentDocuments ==
    Joined(1) \cup ByteDocuments \cup {Unclosed(n) : n \in 1..MaxAttrs}
        \cup {HandlerAfterQuote, DivDocument, DocstringDocument}

ArgumentCalls == { <<<<>>, Placeholder>>, <<<<>>, "entities">>,
                   <<<<{}>>, Placeholder>>, <<<<{"A", "x"}>>, Placeholder>> }

InitArguments ==
    /\ document \in ArgumentDocuments
    /\ \E c \in ArgumentCalls : whitelist_arg = c[1] /\ replacement = c[2]
    /\ html = document
    /\ whitelist = {}
    /\ bad_tags = <<>>
    /\ tokens = <<>>
    /\ pos = 1
    /\ k = 1
    /\ pc = "start"
    /\ Idle("strip_xss")

\* the first turn of either replacement loop on a byte string with a byte
\* above 0x7F: the UnicodeDecodeError leaves strip_xss
DecodeError ==
    /\ pc = "replace"
    /\ k <= Len(bad_tags)
    /\ AsciiDecodeFails(html)
    /\ pc' = "raised"
    /\ UNCHANGED <<document, whitelist_arg, replacement, html, whitelist,
                   bad_tags, tokens, pos, k>>
    /\ Frame("strip_xss")

NextArguments == Next \/ DecodeError

SpecArguments == InitArguments /\ [][NextArguments]_vars

-----------------------------------------------------------------------------
(* strip_xss called by two threads at once.  calls[t] holds the locals of  *)
(* the call of thread t; its bad_tags is a reference to a list object of   *)
(* heap.lists.  heap.supplied is the one set object a caller passes as     *)
(* whitelist to both calls.  A step is one turn of a loop: the threads     *)
(* interleave between turns.                                               *)

Threads == {1, 2}

\* strip_xss run alone, as one function: the pair it returns
RECURSIVE ReplaceAll(_, _, _, _)
ReplaceAll(h, bad, n, repl) ==
    IF n > Len(bad) THEN h
    ELSE ReplaceAll(IF repl = "entities" THEN ReplaceEntities(h, bad[n])
                    ELSE ReplaceSymbol(h, bad[n], repl),
                    bad, n + 1, repl)
strip_xss(h, arg, repl) ==
    LET bad == BadTagsFrom(h, 1, EffectiveWhitelist(arg))
    IN  <<ReplaceAll(h, bad, 1, repl), bad>>

ThreadDocuments ==
    { <<"<","a",">">>, <<"<","y",">">>, <<"<","a",">","<","y",">">> }
SuppliedWhitelist == {"y", "x"}

\* one list object for all the calls
NewListShared(t) == 1

\* bad_tags = []: a new list object, which no other call refers to
NewList(t) == t

InitThreads ==
    /\ \E d \in [Threads -> ThreadDocuments] :
       \E r \in [Threads -> {Placeholder, "entities"}] :
       \E w \in {<<>>, <<SuppliedWhitelist>>} :
          calls = [t \in Threads |->
                     [document |-> d[t], whitelist_arg |-> w,
                      replacement |-> r[t], html |-> d[t], whitelist |-> {},
                      bad_tags |-> 0, pos |-> 1, k |-> 1, pc |-> "start"]]
    /\ heap = [lists |-> [o \in Threads |-> <<>>],
               supplied |-> SuppliedWhitelist]
    /\ Idle("threads")

\* the set a call was passed: None, or the object of the heap
Passed(t) == IF calls[t].whitelist_arg = <<>> THEN <<>> ELSE <<heap.supplied>>

\* lines 1578-1590 in thread t
ThreadStart(t) ==
    /\ calls[t].pc = "start"
    /\ calls' = [calls EXCEPT ![t].whitelist = EffectiveWhitelist(Passed(t)),
                              ![t].bad_tags = NewList(t),
                              ![t].pc = "scan"]
    /\ heap' = [heap EXCEPT !.lists[NewList(t)] = <<>>]
    /\ Frame("threads")

\* one turn of the scan loop in thread t, or its end
ThreadScan(t) ==
    /\ calls[t].pc = "scan"
    /\ LET c == calls[t]
           m == NextMatch(c.html, c.pos)
       IN  IF m = <<>>
           THEN /\ calls' = [calls EXCEPT ![t].pc = "replace"]
                /\ UNCHANGED heap
           ELSE LET tag == SubSeq(c.html, m[1], m[2] - 1)
                IN  /\ calls' = [calls EXCEPT ![t].pos = m[2]]
                    /\ heap' = [heap EXCEPT !.lists[c.bad_tags] =
                                   IF IsBadTag(tag, c.whitelist)
                                   THEN AppendBad(@, tag) ELSE @]
    /\ Frame("threads")

\* one turn of either replacement loop in thread t
ThreadReplace(t) ==
    /\ calls[t].pc = "replace"
    /\ LET c == calls[t]
           bad == heap.lists[c.bad_tags]
       IN  /\ c.k <= Len(bad)
           /\ calls' = [calls EXCEPT
                  ![t].html = IF c.replacement = "entities"
                              THEN ReplaceEntities(c.html, bad[c.k])
                              ELSE ReplaceSymbol(c.html, bad[c.k], c.replacement),
                  ![t].k = @ + 1]
    /\ UNCHANGED heap
    /\ Frame("threads")

\* return (html, bad_tags) in thread t
ThreadReturn(t) ==
    /\ calls[t].pc = "replace"
    /\ calls[t].k > Len(heap.lists[calls[t].bad_tags])
    /\ calls' = [calls EXCEPT ![t].pc = "done"]
    /\ UNCHANGED heap
    /\ Frame("threads")

NextThreads ==
    \E t \in Threads :
        ThreadStart(t) \/ ThreadScan(t) \/ ThreadReplace(t) \/ ThreadReturn(t)

SpecThreads == InitThreads /\ [][NextThreads]_vars

-----------------------------------------------------------------------------
(* merge_handlers.  A handler is a tuple <<pattern, class>>, handler[0] of *)
(* the code being its first element.  merge.handlers is the list object    *)
(* the caller passed, merge.given what it held when the call was made.     *)

MaxHandlers == 3

Patterns == {"/", "/ws"}
HandlerClasses == {"MainHandler", "OtherHandler"}
HandlerLists ==
    UNION {[1..n -> Patterns \X HandlerClasses] : n \in 0..MaxHandlers}

\* a list that list.reverse() leaves as it is
NotReversed(q) == q

\* list.reverse()
Reverse(q) == [n \in 1..Len(q) |-> q[Len(q) + 1 - n]]

InitMerge ==
    /\ \E q \in HandlerLists :
          merge = [pc |-> "reverse", given |-> q, handlers |-> q,
                   out_list |-> <<>>, regexes |-> <<>>, i |-> 1]
    /\ Idle("merge_handlers")

\* lines 990-992: handlers.reverse() reverses the caller's list in place
MergeReverse ==
    /\ merge.pc = "reverse"
    /\ merge' = [merge EXCEPT !.handlers = Reverse(@), !.pc = "loop"]
    /\ Frame("merge_handlers")

\* one turn of the loop of lines 993-996
MergeLoop ==
    /\ merge.pc = "loop"
    /\ merge.i <= Len(merge.handlers)
    /\ LET handler == merge.handlers[merge.i]
           seen == \E n \in 1..Len(merge.regexes) : merge.regexes[n] = handler[1]
       IN  merge' = [merge EXCEPT
                       !.regexes = IF seen THEN @ ELSE Append(@, handler[1]),
                       !.out_list = IF seen THEN @ ELSE Append(@, handler),
                       !.i = @ + 1]
    /\ Frame("merge_handlers")

\* lines 997-998: out_list.reverse(); return out_list
MergeReturn ==
    /\ merge.pc = "loop"
    /\ merge.i > Len(merge.handlers)
    /\ merge' = [merge EXCEPT !.out_list = Reverse(@), !.pc = "done"]
    /\ Frame("merge_handlers")

NextMerge == MergeReverse \/ MergeLoop \/ MergeReturn

SpecMerge == InitMerge /\ [][NextMerge]_vars

-----------------------------------------------------------------------------
(* memoize.  The wrapped function is called with two positional arguments  *)
(* and no keyword argument.  An argument is an object: Objects are string  *)
(* objects, two of them equal in value.  memoized.memo is the dict, as the *)
(* set of its (key, value) items; memoized.log records each call of the    *)
(* memoize object: its arguments, whether self.fn was invoked, and what    *)
(* the call returned ("raised" when the exception of self.fn left it).     *)

MaxCalls == 3

Objects == {1, 2, 3}
\* the value of an object: objects 1 and 2 are equal, and are not one object
ValueOf(o) == IF o = 3 THEN "ws" ELSE "http"
\* the values self.fn returns
Results == {"r1", "r2"}

\* cPickle.dumps(args, 1) for args = (a, b).  The pickler keeps a memo of
\* the objects it has written, by identity: an object met again is written
\* as a reference (BINGET) to its first place, not as its value.
PickleArgs(args) ==
    <<"(", <<"U", ValueOf(args[1])>>,
           IF args[2] = args[1] THEN <<"h", 1>> ELSE <<"U", ValueOf(args[2])>>,
      "t">>
\* cPickle.dumps(kwds, 1) for kwds = {}
PickleNoKwds == <<"}">>
\* str = cPickle.dumps(args, 1)+cPickle.dumps(kwds, 1)
MemoKey(args) == PickleArgs(args) \o PickleNoKwds

\* self.memo.has_key(str), self.memo[str]
HasKey(memo, key) == \E item \in memo : item[1] = key
Lookup(memo, key) == (CHOOSE item \in memo : item[1] = key)[2]

InitMemo ==
    /\ memoized = [memo |-> {}, log |-> <<>>]
    /\ Idle("memoize")

\* __call__ when the key is in memo: return self.memo[str]
MemoHit ==
    /\ Len(memoized.log) < MaxCalls
    /\ \E args \in Objects \X Objects :
          /\ HasKey(memoized.memo, MemoKey(args))
          /\ memoized' = [memoized EXCEPT !.log = Append(@,
                 [args |-> args, invoked |-> FALSE,
                  returned |-> Lookup(memoized.memo, MemoKey(args))])]
    /\ Frame("memoize")

\* __call__ when it is not: self.memo[str] = self.fn(*args, **kwds)
MemoMiss ==
    /\ Len(memoized.log) < MaxCalls
    /\ \E args \in Objects \X Objects : \E r \in Results :
          /\ ~HasKey(memoized.memo, MemoKey(args))
          /\ memoized' = [memoized EXCEPT
                 !.memo = @ \cup {<<MemoKey(args), r>>},
                 !.log = Append(@, [args |-> args, invoked |-> TRUE,
                                    returned |-> r])]
    /\ Frame("memoize")

\* __call__ when it is not and self.fn raises: nothing is stored
MemoRaise ==
    /\ Len(memoized.log) < MaxCalls
    /\ \E args \in Objects \X Objects :
          /\ ~HasKey(memoized.memo, MemoKey(args))
          /\ memoized' = [memoized EXCEPT
                 !.log = Append(@, [args |-> args, invoked |-> TRUE,
                                    returned |-> "raised"])]
    /\ Frame("memoize")

NextMemo == MemoHit \/ MemoMiss \/ MemoRaise

SpecMemo == InitMemo /\ [][NextMemo]_vars

-----------------------------------------------------------------------------
(* get_or_cache.  A path and a file name are texts; a modification time,   *)
(* as "%s" writes it, is one character of the file name.  cache.dir is the *)
(* set of the names of the files of cache_dir.                             *)

Paths == { <<"/","a",".","j","s">>, <<"/","a",".","c","s","s">>,
           <<"/","a",".","t","x","t">> }
Mtimes == {"100.0", "200.0"}

\* path.replace('/', '_')
FlatName(path) == StrReplace(path, <<"/">>, <<"_">>)
\* cached_filename = "%s:%s" % (path.replace('/', '_'), mtime)
CachedFilename(path, mtime) == FlatName(path) \o <<":", mtime>>
\* fname.split(':', 1)[0]
BeforeColon(fname) ==
    LET at == Find(fname, <<":">>, 1)
    IN  IF at = 0 THEN fname ELSE SubSeq(fname, 1, at - 1)
\* JS_END.search(path), CSS_END.search(path): '\.js.*?$', '\.css.*?$'
JsEnd(path) == Contains(path, <<".","j","s">>)
CssEnd(path) == Contains(path, <<".","c","s","s">>)
\* kind, False included
Kind(path) ==
    IF JsEnd(path) THEN "js" ELSE IF CssEnd(path) THEN "css" ELSE "False"

\* the names the files of cache_dir may have before the call
CachedNames == {CachedFilename(q, m) : q \in Paths, m \in Mtimes}

\* the file is written to the cache only in the branch 'elif minify:',
\* 'if kind:'
WritesCache(minify, kind) == minify /\ kind # "False"

InitCache ==
    /\ \E d \in SUBSET CachedNames : \E q \in Paths : \E m \in Mtimes :
       \E minify \in BOOLEAN :
          cache = [pc |-> "called", dir |-> d, path |-> q, mtime |-> m,
                   minify |-> minify, cached_before |-> FALSE,
                   data |-> "None"]
    /\ Idle("get_or_cache")

\* lines 1404-1432: the cached file is read, or the original is minified
\* and cached, or the original is read
CacheGet ==
    /\ cache.pc = "called"
    /\ LET cached_filename == CachedFilename(cache.path, cache.mtime)
           exists == cached_filename \in cache.dir
           writes == ~exists /\ WritesCache(cache.minify, Kind(cache.path))
       IN  cache' = [cache EXCEPT
              !.cached_before = exists,
              !.data = IF exists THEN "cached"
                       ELSE IF writes THEN "minified" ELSE "original",
              !.dir = IF writes THEN @ \cup {cached_filename} ELSE @,
              !.pc = "cleanup"]
    /\ Frame("get_or_cache")

\* lines 1433-1440: the loop over os.listdir(cache_dir), and the return
CacheCleanUp ==
    /\ cache.pc = "cleanup"
    /\ LET cached_filename == CachedFilename(cache.path, cache.mtime)
           old == {fname \in cache.dir :
                      /\ fname # cached_filename
                      /\ BeforeColon(fname) = FlatName(cache.path)}
       IN  cache' = [cache EXCEPT !.dir = @ \ old, !.pc = "done"]
    /\ Frame("get_or_cache")

NextCache == CacheGet \/ CacheCleanUp

SpecCache == InitCache /\ [][NextCache]_vars

-----------------------------------------------------------------------------
(* shell_command and timeout_func.  shell.pc is the position of the        *)
(* caller, shell.thread the state of the InterruptableThread that runs     *)
(* getstatusoutput(cmd), shell.elapsed the seconds since it was started    *)
(* and shell.runtime the seconds the command takes.  shell.sigchld is the  *)
(* handler of SIGCHLD, "SIG_DFL" or "handler".                             *)

MaxTimeout == 2
MaxRuntime == 3

\* default = (255, _("ERROR: Timeout running shell command"))
TimeoutDefault == <<255, "ERROR: Timeout running shell command">>
\* what getstatusoutput returns when the command has ended
CommandResult == <<0, "output">>

InitShell ==
    /\ \E handler \in {"SIG_DFL", "handler"} : \E main \in BOOLEAN :
       \E t \in 1..MaxTimeout : \E r \in 1..MaxRuntime :
          shell = [pc |-> "called", existing_handler |-> handler,
                   sigchld |-> handler, main_thread |-> main,
                   timeout_duration |-> t, runtime |-> r, elapsed |-> 0,
                   thread |-> "new", it_result |-> "None", result |-> "None"]
    /\ Idle("shell_command")

\* signal.signal(signal.SIGCHLD, h): ValueError outside the main thread,
\* which the code passes over
Signal(h) == IF shell.main_thread THEN h ELSE shell.sigchld

\* lines 359-369 and it.start()
ShellStart ==
    /\ shell.pc = "called"
    /\ shell' = [shell EXCEPT
          !.sigchld = IF shell.existing_handler # "SIG_DFL"
                      THEN Signal("SIG_DFL") ELSE @,
          !.thread = "running",
          !.pc = "join"]
    /\ Frame("shell_command")

\* a second passes while the command runs
Tick ==
    /\ shell.thread = "running"
    /\ shell.elapsed < shell.runtime
    /\ shell' = [shell EXCEPT !.elapsed = @ + 1]
    /\ Frame("shell_command")

\* the command ends: run() assigns self.result and the thread ends
CommandEnds ==
    /\ shell.thread = "running"
    /\ shell.elapsed = shell.runtime
    /\ shell' = [shell EXCEPT !.it_result = CommandResult,
                              !.thread = "ended"]
    /\ Frame("shell_command")

\* it.join(timeout_duration) returns because the thread has ended:
\* it.isAlive() is false, return it.result
JoinEnded ==
    /\ shell.pc = "join"
    /\ shell.thread = "ended"
    /\ shell' = [shell EXCEPT !.result = shell.it_result, !.pc = "restore"]
    /\ Frame("shell_command")

\* it.join(timeout_duration) returns because the time is up:
\* it.isAlive() is true, return default; nothing is done to the thread
JoinTimesOut ==
    /\ shell.pc = "join"
    /\ shell.thread = "running"
    /\ shell.elapsed >= shell.timeout_duration
    /\ shell' = [shell EXCEPT !.result = TimeoutDefault, !.pc = "restore"]
    /\ Frame("shell_command")

\* lines 376-382: the handler is set again and result returned
ShellReturn ==
    /\ shell.pc = "restore"
    /\ shell' = [shell EXCEPT !.sigchld = Signal(shell.existing_handler),
                              !.pc = "returned"]
    /\ Frame("shell_command")

NextShell ==
    ShellStart \/ Tick \/ CommandEnds \/ JoinEnded \/ JoinTimesOut \/ ShellReturn

SpecShell == InitShell /\ [][NextShell]_vars

-----------------------------------------------------------------------------
(* What the claims speak of.                                               *)

Done == pc = "done"
SymbolMode == replacement # "entities"
CharsOf(s) == {s[n] : n \in 1..Len(s)}
Range(q) == {q[n] : n \in 1..Len(q)}
Occurs(sub, s) == Find(s, sub, 1) # 0

\* the raw text of the n-th token
TokenText(n) == SubSeq(document, tokens[n].start, tokens[n].end - 1)
\* the n-th token is a Removed one: its raw text is in the removed list
Removed(n) == TokenText(n) \in Range(bad_tags)

\* an inline event handler: whitespace, on<letters>, optional whitespace, =
EventHandler(s) ==
    \E i \in 1..Len(s) : \E j \in (i + 4)..Len(s) :
        /\ s[i] \in SpaceChars
        /\ s[i + 1] = "o" /\ s[i + 2] = "n"
        /\ s[j] = "="
        /\ \E e \in (i + 3)..(j - 1) :
              /\ \A n \in (i + 3)..e : s[n] \in LowerLetters
              /\ \A n \in (e + 1)..(j - 1) : s[n] \in SpaceChars

\* the lower-cased raw text matches an attack signature
HasSignature(tag) ==
    LET low == Lower(tag)
    IN  \/ Occurs(Javascript, low) \/ Occurs(Vbscript, low)
        \/ Occurs(Fscommand, low) \/ Occurs(Seeksegmenttime, low)
        \/ EventHandler(low)

\* The tag name as section 4.2 of the specification derives it: one leading
\* "<" or "</" and a trailing "/>" or ">" stripped, the first
\* whitespace-separated piece, lower-cased.
SpecTagName(tag) ==
    LET low == Lower(tag)
        body == IF Len(low) >= 2 /\ low[2] = "/"
                THEN SubSeq(low, 3, Len(low)) ELSE SubSeq(low, 2, Len(low))
        n == Len(body)
        core == IF n >= 2 /\ body[n - 1] = "/" THEN SubSeq(body, 1, n - 2)
                ELSE SubSeq(body, 1, n - 1)
    IN  Str(FirstWord(core))

\* The document with the span of each Removed token replaced by U+2421 and
\* everything else copied, from token n and position from on.
RECURSIVE SpanRender(_, _)
SpanRender(n, from) ==
    IF n > Len(tokens) THEN SubSeq(document, from, Len(document))
    ELSE SubSeq(document, from, tokens[n].start - 1)
             \o (IF Removed(n) THEN <<Placeholder>> ELSE TokenText(n))
             \o SpanRender(n + 1, tokens[n].end)

\* The names of the tags a browser sees in s: "<", an optional "/", a name,
\* then whitespace, "/" or ">", closed by a ">" with no "<" before it.
TagNames(s) ==
    { Str(Lower(SubSeq(s, a, b))) :
        <<a, b>> \in { <<a, b>> \in (1..Len(s)) \X (1..Len(s)) :
            /\ a <= b
            /\ \/ a >= 2 /\ s[a - 1] = "<"
               \/ a >= 3 /\ s[a - 1] = "/" /\ s[a - 2] = "<"
            /\ \A n \in a..b : s[n] \in WordChars
            /\ b < Len(s) /\ s[b + 1] \in SpaceChars \cup {"/", ">"}
            /\ \E c \in (b + 1)..Len(s) :
                  /\ s[c] = ">"
                  /\ \A n \in (b + 1)..(c - 1) : s[n] # "<" } }

-----------------------------------------------------------------------------
(* C1.  strip_xss with the default whitelist and the default replacement   *)
(* on '<span>Hello, exploit: <img src="javascript:alert(1)"></span>'       *)
(* returns '<span>Hello, exploit: U+2421</span>' and the removed list      *)
(* ['<img src="javascript:alert(1)">'].                                    *)
C1_Example ==
    (Done /\ document = ExampleDocument /\ whitelist_arg = <<>>
          /\ replacement = Placeholder)
    => /\ html = SpanOpen \o HelloExploit \o <<Placeholder>> \o SpanClose
       /\ bad_tags = <<ImgJavascript>>

C1_Witness ==
    /\ Done /\ document = ExampleDocument /\ whitelist_arg = <<>>
    /\ replacement = Placeholder
    /\ Len(tokens) = 3 /\ Len(bad_tags) = 1

C3_BadTagGone ==
    Done => \A n \in 1..Len(tokens) :
               short_tag(TokenText(n)) \notin whitelist
               => Removed(n) /\ ~Occurs(TokenText(n), html)

(* C4.  For a document whose tag tokens all have whitelisted tag names     *)
(* (opening, closing, self-closing "<name/>" or "<name />", any case) and  *)
(* match no attack signature, the removed list is empty and the returned   *)
(* text is the document.                                                   *)
C4_BenignUnchanged ==
    (Done /\ \A n \in 1..Len(tokens) :
                 /\ SpecTagName(TokenText(n)) \in whitelist
                 /\ ~HasSignature(TokenText(n)))
    => bad_tags = <<>> /\ html = document

(* C5.  In Symbol mode a second pass over the returned text finds no token *)
(* to remove: it returns that text and an empty removed list.              *)
C5_Idempotent ==
    (Done /\ SymbolMode) => BadTagsFrom(html, 1, whitelist) = <<>>

(* C6.  In Symbol mode every removed tag is replaced by the character the  *)
(* caller passed as replacement; U+2421 is used only when the caller       *)
(* passed none or passed U+2421.                                           *)
C6_CallerPlaceholder ==
    (Done /\ SymbolMode /\ replacement # Placeholder)
    => /\ bad_tags # <<>> => replacement \in CharsOf(html)
       /\ Placeholder \in CharsOf(html) => Placeholder \in CharsOf(document)

(* C7.  In Symbol mode the returned text is the document with exactly the  *)
(* spans of the Removed tokens replaced: the spans of Allowed tokens and   *)
(* the text outside tokens are copied unchanged.                           *)
C7_OnlySpansReplaced ==
    (Done /\ SymbolMode) => html = SpanRender(1, 1)

(* C8.  In Entities mode a removed token is replaced by the escaped        *)
(* rendering of that token's own raw text: after the first turn of the     *)
(* replacement loop the text is the document with the first removed tag    *)
(* replaced by its own escaped text.                                       *)
C8_OwnTextEscaped ==
    (pc = "replace" /\ replacement = "entities" /\ k = 2)
    => html = StrReplace(document, bad_tags[1], Escape(bad_tags[1]))

(* C9.  The returned text contains no HTML tag with a non-whitelisted      *)
(* name, whatever the syntax of its attributes.                            *)
C9_NoForbiddenTag ==
    Done => TagNames(html) \subseteq whitelist

(* C10.  The removed list holds the raw text of the Removed tokens in      *)
(* their order of occurrence in the document, one entry per occurrence.    *)
C10_RemovedInOrder ==
    /\ bad_tags = Flatten([n \in 1..Len(tokens) |->
                              IF Removed(n) THEN <<TokenText(n)>> ELSE <<>>])
    /\ \A n \in 1..Len(tokens) :
          /\ tokens[n].start < tokens[n].end
          /\ n > 1 => tokens[n - 1].end <= tokens[n].start

C10_Witness ==
    /\ Done /\ Len(bad_tags) = 2 /\ bad_tags[1] = bad_tags[2]
    /\ Len(tokens) = 2

-----------------------------------------------------------------------------
(* C11.  The whitelist in use is the one the caller supplies, whatever set *)
(* it is, the empty set included: a token is permitted only when its tag   *)
(* name is in the supplied set, so with the empty set every token is       *)
(* removed.                                                                *)
C11_SuppliedWhitelistUsed ==
    whitelist_arg # <<>> =>
        \A n \in 1..Len(tokens) :
            ~Removed(n) => short_tag(TokenText(n)) \in whitelist_arg[1]

-----------------------------------------------------------------------------
(* C12.  The whitelist comparison ignores case on both sides: a token      *)
(* without an attack signature is permitted exactly when its lower-cased   *)
(* tag name equals the lower-cased form of some whitelist entry ('<b>' is  *)
(* permitted by the entry 'B').  The upper-case entries of the calls are   *)
(* one letter long, so LowerChar lower-cases them.                         *)
C12_CaseInsensitiveBothSides ==
    whitelist_arg # <<>> /\ whitelist_arg[1] # {} =>
        \A n \in 1..Len(tokens) :
            ~HasSignature(TokenText(n)) =>
                (~Removed(n) <=>
                    short_tag(TokenText(n))
                        \in {LowerChar(e) : e \in whitelist_arg[1]})

-----------------------------------------------------------------------------
(* C13.  The default whitelist, the one in use when the caller supplies    *)
(* none, has exactly 58 names: the names the docstring and the             *)
(* specification enumerate (a, abbr, aside, ..., h1 to h6, ..., video,     *)
(* wbr); script, style, iframe, object and embed are not among them.       *)

\* the names as the docstring of strip_xss and the specification list them
EnumeratedNames ==
    {"a", "abbr", "aside", "audio", "bdi", "bdo", "blockquote", "canvas",
     "caption", "code", "col", "colgroup", "data", "dd", "del", "details",
     "div", "dl", "dt", "em", "figcaption", "figure"}
    \cup {"h1", "h2", "h3", "h4", "h5", "h6"}
    \cup {"hr", "i", "img", "ins", "kbd", "li", "mark", "ol", "p", "pre", "q",
          "rp", "rt", "ruby", "s", "samp", "small", "source", "span",
          "strong", "sub", "summary", "sup", "time", "track", "u", "ul",
          "var", "video", "wbr"}
ForbiddenNames == {"script", "style", "iframe", "object", "embed"}
\* the call was made without a whitelist and is past line 1589
DefaultInUse == whitelist_arg = <<>> /\ pc # "start"

C13_DefaultWhitelist58 ==
    DefaultInUse =>
        /\ whitelist = EnumeratedNames
        /\ Cardinality(whitelist) = 58
        /\ whitelist \cap ForbiddenNames = {}

\* a call without a whitelist has scanned a token and permitted it
C13_Witness ==
    /\ DefaultInUse
    /\ Done
    /\ \E n \in 1..Len(tokens) : ~Removed(n)

\* C13 as the specification words it: exactly 45 names
C13_DefaultWhitelist45 ==
    DefaultInUse =>
        /\ whitelist = EnumeratedNames
        /\ Cardinality(whitelist) = 45
        /\ whitelist \cap ForbiddenNames = {}

-----------------------------------------------------------------------------
(* C14.  strip_xss is total: whatever the input text and the mode, the     *)
(* call goes on to return a (text, removed) pair; it never raises.         *)
C14_NeverRaises == pc # "raised"

-----------------------------------------------------------------------------
(* C16.  The cost of scanning is linear in the length of the text: from    *)
(* any start position the matcher comes to each position of the text a     *)
(* bounded number of times (here at most twice, once for either reading    *)
(* of the optional "/"), so it tries the closing ">" at most               *)
(* 2 * (length + 1) times; no text makes the number of readings it         *)
(* backtracks through grow faster.                                         *)
C16_LinearScan ==
    pc = "scan" =>
        \A i \in 1..Len(html) : Len(TagBody(html, i)) <= 2 * (Len(html) + 1)

-----------------------------------------------------------------------------
(* C15.  Calls of strip_xss made at the same time do not interfere: each   *)
(* returns the pair it returns when it runs alone on its own arguments,    *)
(* and the whitelist object the caller supplied is left as it was.         *)
C15_CallsDoNotInterfere ==
    /\ heap.supplied = SuppliedWhitelist
    /\ \A t \in Threads :
          calls[t].pc = "done" =>
              <<calls[t].html, heap.lists[calls[t].bad_tags]>>
                  = strip_xss(calls[t].document, calls[t].whitelist_arg,
                              calls[t].replacement)

\* two calls on different documents have both returned, each after
\* removing a tag
C15_Witness ==
    /\ \A t \in Threads :
          calls[t].pc = "done" /\ heap.lists[calls[t].bad_tags] # <<>>
    /\ calls[1].document # calls[2].document

-----------------------------------------------------------------------------
(* C17.  merge_handlers returns the handlers it was given with duplicates  *)
(* removed: of the entries with one pattern only the one with the highest  *)
(* index is kept, and the kept entries are in the order they had in the    *)
(* given list.                                                             *)

\* no later entry of q has the pattern of entry n
LastOfPattern(q, n) == \A j \in (n + 1)..Len(q) : q[j][1] # q[n][1]
\* the entries of q from index n on that are the last of their pattern
RECURSIVE KeptFrom(_, _)
KeptFrom(q, n) ==
    IF n > Len(q) THEN <<>>
    ELSE (IF LastOfPattern(q, n) THEN <<q[n]>> ELSE <<>>) \o KeptFrom(q, n + 1)

C17_MergeKeepsLast ==
    merge.pc = "done" => merge.out_list = KeptFrom(merge.given, 1)

\* a call has returned two entries after dropping an earlier duplicate
C17_Witness ==
    /\ merge.pc = "done"
    /\ Len(merge.out_list) = 2
    /\ Len(merge.given) = 3
    /\ ~LastOfPattern(merge.given, 1)

-----------------------------------------------------------------------------
(* C18.  Over any sequence of calls of a memoized function, the wrapped    *)
(* function is invoked at most once for each distinct combination of       *)
(* arguments: once an invocation has returned a value, every later call    *)
(* with the same arguments returns that value and does not invoke the      *)
(* function again.                                                         *)

\* the arguments of a call, as values
ArgValues(call) == <<ValueOf(call.args[1]), ValueOf(call.args[2])>>

C18_InvokedOncePerArguments ==
    \A i \in 1..Len(memoized.log) : \A j \in (i + 1)..Len(memoized.log) :
        LET first == memoized.log[i]
            later == memoized.log[j]
        IN  /\ first.invoked
            /\ first.returned # "raised"
            /\ ArgValues(later) = ArgValues(first)
            /\ \A n \in 1..(i - 1) :
                   ArgValues(memoized.log[n]) # ArgValues(first)
            => ~later.invoked /\ later.returned = first.returned

-----------------------------------------------------------------------------
(* C19.  When get_or_cache has returned for a file that was not cached     *)
(* yet, cache_dir holds the cached version for the file's current          *)
(* modification time, whatever minify and whatever the file's extension,   *)
(* so the next call is served from the cache; and no cached entry for      *)
(* another modification time of that path is left.                         *)
C19_CachedAfterReturn ==
    cache.pc = "done" /\ ~cache.cached_before =>
        /\ CachedFilename(cache.path, cache.mtime) \in cache.dir
        /\ \A m \in Mtimes \ {cache.mtime} :
              CachedFilename(cache.path, m) \notin cache.dir

-----------------------------------------------------------------------------
(* C20.  When the command takes longer than timeout_duration,              *)
(* shell_command returns (255, the timeout message) and the command has    *)
(* been killed: once shell_command has returned the timeout, the worker    *)
(* that runs the command is no longer running and does nothing more.       *)
C20_KilledOnTimeout ==
    /\ shell.runtime > shell.timeout_duration
    /\ shell.pc = "returned"
    => /\ shell.result = TimeoutDefault
       /\ shell.thread # "running"

-----------------------------------------------------------------------------
(* C21.  The tag name looked up in the whitelist is the one obtained by    *)
(* stripping one leading "<" or "</" and a trailing "/>" or ">", taking    *)
(* the first whitespace-separated piece and lower-casing it: the name of   *)
(* '<hr/>' is 'hr', as for '<hr>' and '<hr />'.                            *)
C21_TagNameDerivation ==
    \A n \in 1..Len(tokens) :
        short_tag(TokenText(n)) = SpecTagName(TokenText(n))

-----------------------------------------------------------------------------
(* C22.  The event-handler signature matches every token whose lower-cased *)
(* raw text contains "on", one or more letters a-z, optional whitespace    *)
(* and "=", wherever that sits in the token, with or without whitespace    *)
(* before the "on": every such token is removed, whitelisted or not.       *)

\* on[a-z]+\s*= somewhere in s
EventHandlerAnywhere(s) ==
    \E i \in 1..Len(s) : \E j \in (i + 3)..Len(s) :
        /\ s[i] = "o" /\ s[i + 1] = "n"
        /\ s[j] = "="
        /\ \E e \in (i + 2)..(j - 1) :
              /\ \A n \in (i + 2)..e : s[n] \in LowerLetters
              /\ \A n \in (e + 1)..(j - 1) : s[n] \in SpaceChars

C22_EventHandlerAnywhere ==
    \A n \in 1..Len(tokens) :
        EventHandlerAnywhere(Lower(TokenText(n))) => Removed(n)

-----------------------------------------------------------------------------
(* C23.  Every token is classified on its own: strip_xss with the default  *)
(* whitelist and the default replacement on                                *)
(* '<div onmouseover="steal()">x</div>' removes the opening tag for its    *)
(* event handler and permits '</div>': it returns U+2421 followed by       *)
(* 'x</div>', and a removed list holding the opening tag alone.            *)
C23_DivExample ==
    /\ Done
    /\ document = DivDocument
    /\ whitelist_arg = <<>>
    /\ SymbolMode
    => /\ html = <<Placeholder, "x">> \o DivClose
       /\ bad_tags = <<DivOpen>>
       /\ Len(tokens) = 2
       /\ TokenText(2) = DivClose

\* the call on that document has returned
C23_Witness ==
    /\ Done
    /\ document = DivDocument
    /\ whitelist_arg = <<>>
    /\ SymbolMode
    /\ bad_tags # <<>>

-----------------------------------------------------------------------------
(* C24.  In Symbol mode the length of the returned text is the length of   *)
(* the document, minus the lengths of the entries of the removed list,     *)
(* plus one character for each entry.                                      *)

\* the sum of the lengths of the texts of q
RECURSIVE SumLen(_)
SumLen(q) == IF q = <<>> THEN 0 ELSE Len(Head(q)) + SumLen(Tail(q))

C24_SymbolLength ==
    Done /\ SymbolMode =>
        Len(html) + SumLen(bad_tags) = Len(document) + Len(bad_tags)

-----------------------------------------------------------------------------
(* C25.  In Entities mode the text inserted for a removed tag has "<", ">" *)
(* and "&" rewritten as HTML entities (and U+2421 as a character           *)
(* reference); the single and double quote characters are left as they     *)
(* are, so the quotes of a removed tag are in the returned text.           *)

QuoteChars == {"'", "\""}
\* how many times character c is in s
Count(s, c) == Cardinality({n \in 1..Len(s) : s[n] = c})
\* what follows an "&" that escaping wrote
EntityBodies == { <<"a","m","p",";">>, <<"l","t",";">>, <<"g","t",";">>,
                  <<"#","9","2","4","9",";">> }
\* every "&" of s begins an entity
AllEntities(s) ==
    \A i \in 1..Len(s) :
        s[i] = "&" => \E e \in EntityBodies : SubSeq(s, i + 1, i + Len(e)) = e
\* a turn of the replacement loop of Entities mode is about to run
EntitiesTurn ==
    replacement = "entities" /\ pc = "replace" /\ k <= Len(bad_tags)

C25_QuotesKept ==
    /\ EntitiesTurn =>
          LET inserted == Escape(html)
          IN  /\ Count(inserted, "<") = 0 /\ Count(inserted, ">") = 0
              /\ AllEntities(inserted)
              /\ \A q \in QuoteChars : Count(inserted, q) = Count(html, q)
    /\ replacement = "entities" =>
          \A q \in QuoteChars : Count(html, q) >= Count(document, q)

\* a call in Entities mode has returned after removing a tag with a double
\* quote in it, and the returned text has double quotes
C25_Witness ==
    /\ Done
    /\ replacement = "entities"
    /\ \E n \in 1..Len(bad_tags) : Count(bad_tags[n], "\"") > 0
    /\ Count(html, "\"") > 0

\* C25 as the specification words it: the quotes are rewritten too
C25_QuotesEscaped ==
    EntitiesTurn =>
        LET inserted == Escape(html)
        IN  /\ Count(inserted, "<") = 0 /\ Count(inserted, ">") = 0
            /\ AllEntities(inserted)
            /\ \A q \in QuoteChars : Count(inserted, q) = 0

-----------------------------------------------------------------------------
(* C26.  In Entities mode every occurrence of a removed tag's text is      *)
(* replaced by the entity-escaped copy of the whole text as it stands at   *)
(* that turn of the loop.  For the document of the docstring the one bad   *)
(* tag, the img tag, is replaced by the escaped form of the whole input;   *)
(* and whenever one tag is removed and its text is in the document once,   *)
(* the returned text is the document with the escaped document in the      *)
(* place of that tag.                                                      *)

\* s occurs in t exactly once
OccursOnce(s, t) ==
    Find(t, s, 1) # 0 /\ Find(t, s, Find(t, s, 1) + 1) = 0
\* t with the text new in the place of the first occurrence of old
Spliced(t, old, new) ==
    LET at == Find(t, old, 1)
    IN  SubSeq(t, 1, at - 1) \o new \o SubSeq(t, at + Len(old), Len(t))

-----------------------------------------------------------------------------
(* C27.  In Entities mode every removed tag becomes inert: scanning the    *)
(* returned text again finds no tag token that the classifier would        *)
(* remove.                                                                 *)
C27_EntitiesInert ==
    Done /\ replacement = "entities" => BadTagsFrom(html, 1, whitelist) = <<>>

-----------------------------------------------------------------------------
(* C28.  Classification is finished on the document as it was passed,      *)
(* before any replacement is made: while the scan runs html is still the   *)
(* document, and from then on the removed list is the list the scan of the *)
(* document with the whitelist in use gives, a function of the document    *)
(* and the whitelist argument alone, whatever the replacement argument     *)
(* (U+2421, "entities" or another placeholder).                            *)
C28_RemovedIndependentOfMode ==
    /\ pc \in {"start", "scan"} => html = document
    /\ pc \in {"replace", "done"} =>
          bad_tags = BadTagsFrom(document, 1, EffectiveWhitelist(whitelist_arg))

\* a call in Entities mode has returned a text that is not the document,
\* with two entries in its removed list
C28_Witness ==
    /\ Done
    /\ replacement = "entities"
    /\ Len(bad_tags) = 2
    /\ html # document

-----------------------------------------------------------------------------
(* C29.  In Entities mode the text inserted in place of a removed tag has  *)
(* no literal "<" or ">", so a replacement never brings in a new tag       *)
(* token: every tag token of the returned text that lies outside the       *)
(* inserted text is the text of a token of the document.                   *)

\* A marked text is a sequence of pairs <<character, inserted>>.
\* The marked text mt, whose characters are chars, from position from on,
\* with the marked text new in place of every occurrence of old.
RECURSIVE MarkedFrom(_, _, _, _, _)
MarkedFrom(mt, chars, old, new, from) ==
    LET i == Find(chars, old, from)
    IN  IF i = 0 THEN SubSeq(mt, from, Len(mt))
        ELSE SubSeq(mt, from, i - 1) \o new
                 \o MarkedFrom(mt, chars, old, new, i + Len(old))
\* the replacement loop of Entities mode from its n-th turn on, run on a
\* marked text: what a turn inserts is marked as inserted
RECURSIVE MarkedAll(_, _, _)
MarkedAll(mt, bad, n) ==
    IF n > Len(bad) THEN mt
    ELSE LET chars == [j \in 1..Len(mt) |-> mt[j][1]]
             escaped == Escape(chars)
             new == [j \in 1..Len(escaped) |-> <<escaped[j], TRUE>>]
         IN  MarkedAll(MarkedFrom(mt, chars, bad[n], new, 1), bad, n + 1)
\* the returned text of a call in Entities mode, marked
MarkedResult ==
    MarkedAll([j \in 1..Len(document) |-> <<document[j], FALSE>>], bad_tags, 1)
\* the spans <<start, end>> of the tokens of s from position i on
RECURSIVE SpansFrom(_, _)
SpansFrom(s, i) ==
    LET m == NextMatch(s, i)
    IN  IF m = <<>> THEN <<>> ELSE <<m>> \o SpansFrom(s, m[2])

C30_ArgumentUnchanged ==
    merge.pc = "done" => merge.handlers = merge.given

=============================================================================
